---- MODULE Spec2Model ----
(***************************************************************************)
(* Model of the configuration logic of dbrt:                               *)
(*   - the sampling block assembly of visual_tracker_factory.cpp           *)
(*     (merge_sampling_block_definitions, definition_to_sampling_block     *)
(*     and their use in create_visual_tracker),                            *)
(*   - RobotJointTransitionModelBuilder::build,                            *)
(*   - the locking of RobotTracker::initialize and RobotTracker::track,    *)
(*   - DampedWienerProcess: Condition, MapGaussian, Parameters,            *)
(*   - ContinuousOcclusionProcessModel: Condition, MapStandardGaussian.    *)
(***************************************************************************)
EXTENDS Integers, Sequences, FiniteSets, TLC

VARIABLES
    definition_A,       \* first argument of merge_sampling_block_definitions
    definition_B,       \* second argument of merge_sampling_block_definitions
    merged,             \* the local `merged`, then `merged_definitions`
    b_pos,              \* position of the outer loop of the merge in definition_B
    merge_calls,        \* number of calls of merge_sampling_block_definitions begun
    kinematics,         \* name -> index map of the kinematics used by the resolve
    sampling_blocks,    \* tracker_parameters.sampling_blocks
    tracker_blocks,     \* sampling blocks the tracker builder was constructed with
    exception,          \* exception that left create_visual_tracker, or "none"
    pc,                 \* position in the assembly
    param_,             \* RobotJointTransitionModelBuilder::param_
    build_log,          \* the build calls made: argument and outcome of each
    mutex_,             \* RobotTracker::mutex_: the thread that owns it, or 0
    tpc,                \* per thread: its position in initialize or track
    call,               \* per thread: the member function it called last
    result,             \* per thread: how its last finished call left
    started,            \* number of initialize and track calls begun
    damping_,           \* DampedWienerProcess::damping_
    noise_covariance_,  \* DampedWienerProcess::noise_covariance_
    gaussian_,          \* DampedWienerProcess::gaussian_
    last_condition,     \* sequential use: the most recent Condition call
    maps_since,         \* sequential use: the MapGaussian calls made since
    caller_pc,          \* shared use, per caller: its position
    caller_args,        \* shared use, per caller: arguments of its Condition
    caller_sample,      \* shared use, per caller: argument of its MapGaussian
    caller_result,      \* shared use, per caller: what its MapGaussian returned
    mean_,              \* ContinuousOcclusionProcessModel::mean_
    occlusion_probability_, \* ...::occlusion_probability_
    sigma_,             \* ContinuousOcclusionProcessModel::sigma_
    occ_pc,             \* per caller: its position in Condition
    occ_args,           \* per caller: delta_time and occlusion of its Condition
    occ_mean,           \* per caller: the local `mean` of its Condition
    occ_sample,         \* per caller: argument of its MapStandardGaussian
    occ_result          \* per caller: what its MapStandardGaussian returned

vars == <<definition_A, definition_B, merged, b_pos, merge_calls, kinematics,
          sampling_blocks, tracker_blocks, exception, pc,
          param_, build_log,
          mutex_, tpc, call, result, started,
          damping_, noise_covariance_, gaussian_, last_condition, maps_since,
          caller_pc, caller_args, caller_sample, caller_result,
          mean_, occlusion_probability_, sigma_, occ_pc, occ_args, occ_mean,
          occ_sample, occ_result>>

factory_vars == <<definition_A, definition_B, merged, b_pos, merge_calls,
                  kinematics, sampling_blocks, tracker_blocks, exception, pc>>

builder_vars == <<param_, build_log>>

tracker_vars == <<mutex_, tpc, call, result, started>>

process_vars == <<damping_, noise_covariance_, gaussian_, last_condition,
                  maps_since, caller_pc, caller_args, caller_sample,
                  caller_result>>

occlusion_vars == <<mean_, occlusion_probability_, sigma_, occ_pc, occ_args,
                    occ_mean, occ_sample, occ_result>>

\* The variables the sampling block assembly leaves alone
beyond_factory_vars ==
    <<builder_vars, tracker_vars, process_vars, occlusion_vars>>

\* The variables a build call leaves alone
beyond_builder_vars ==
    <<factory_vars, tracker_vars, process_vars, occlusion_vars>>

\* The variables initialize and track leave alone
beyond_tracker_vars ==
    <<factory_vars, builder_vars, process_vars, occlusion_vars>>

\* The variables the calls of a DampedWienerProcess leave alone
beyond_process_vars ==
    <<factory_vars, builder_vars, tracker_vars, occlusion_vars>>

\* The variables the calls of a ContinuousOcclusionProcessModel leave alone
beyond_occlusion_vars ==
    <<factory_vars, builder_vars, tracker_vars, process_vars>>

----------------------------------------------------------------------------
(* Bounds of the model *)

\* groups in definition_A plus groups in definition_B
MaxGroups == 3

\* joint names in one group of an enumerated input definition
MaxJoints == 2

\* calls of merge_sampling_block_definitions in one run
MaxMergeCalls == 3

\* length of Parameters::joint_sigmas
MaxSigmas == 2

\* largest Parameters::joint_count
MaxJointCount == 2

\* threads that call initialize and track on the one tracker
NumThreads == 2

\* initialize and track calls begun in one run
MaxCalls == 3

\* MapGaussian calls between two Condition calls
MaxMaps == 3

\* build calls on one builder
MaxBuilds == 3

----------------------------------------------------------------------------
(* Sampling block definitions *)

\* The keys of std::map<std::string, ...> in the order std::map iterates them
KeyOrder == <<"arm", "offset">>

GroupNames == {KeyOrder[i] : i \in 1..Len(KeyOrder)}

KeyRank(k) == CHOOSE i \in 1..Len(KeyOrder) : KeyOrder[i] = k

JointNames == {"j1", "j2", "j3", "j4"}

\* block_definition.begin()->first: the smallest key of the map
BeginFirst(block_definition) ==
    CHOOSE k \in DOMAIN block_definition :
        \A o \in DOMAIN block_definition : KeyRank(k) <= KeyRank(o)

\* The joint names under the largest key instead
BeginSecond_last_key(block_definition) ==
    block_definition[CHOOSE k \in DOMAIN block_definition :
                        \A o \in DOMAIN block_definition :
                            KeyRank(k) >= KeyRank(o)]

\* block_definition.begin()->second: the joint names under the smallest key
BeginSecond(block_definition) == block_definition[BeginFirst(block_definition)]

----------------------------------------------------------------------------
(* merge_sampling_block_definitions *)

\* ExtendBlocks with the joint names of B inserted at the begin of the group
ExtendBlocks_prepend(merged_, block_definition_B) ==
    [i \in 1..Len(merged_) |->
        IF BeginFirst(merged_[i]) = BeginFirst(block_definition_B)
        THEN [merged_[i] EXCEPT ![BeginFirst(merged_[i])] =
                  BeginSecond(block_definition_B) \o @]
        ELSE merged_[i]]

\* ExtendBlocks with the joint names of the group replaced by those of B
ExtendBlocks_replace(merged_, block_definition_B) ==
    [i \in 1..Len(merged_) |->
        IF BeginFirst(merged_[i]) = BeginFirst(block_definition_B)
        THEN [merged_[i] EXCEPT ![BeginFirst(merged_[i])] =
                  BeginSecond(block_definition_B)]
        ELSE merged_[i]]

\* Lines 80-90: the inner loop over `merged`. Every element whose first key
\* equals the first key of the B element gets the B joint names inserted at
\* the end of its joint names (the loop has no break).
ExtendBlocks(merged_, block_definition_B) ==
    [i \in 1..Len(merged_) |->
        IF BeginFirst(merged_[i]) = BeginFirst(block_definition_B)
        THEN [merged_[i] EXCEPT ![BeginFirst(merged_[i])] =
                  @ \o BeginSecond(block_definition_B)]
        ELSE merged_[i]]

\* The flag `added` after the inner loop
Added(merged_, block_definition_B) ==
    \E i \in 1..Len(merged_) :
        BeginFirst(merged_[i]) = BeginFirst(block_definition_B)

\* MergeBlockInto with a new group inserted in front of `merged`
MergeBlockInto_push_front(merged_, block_definition_B) ==
    IF Added(merged_, block_definition_B)
    THEN ExtendBlocks(merged_, block_definition_B)
    ELSE <<block_definition_B>> \o merged_

\* MergeBlockInto without the test of `added` before the push_back
MergeBlockInto_always_push(merged_, block_definition_B) ==
    Append(ExtendBlocks(merged_, block_definition_B), block_definition_B)

\* Lines 75-95: one iteration of the outer loop
MergeBlockInto(merged_, block_definition_B) ==
    IF Added(merged_, block_definition_B)
    THEN ExtendBlocks(merged_, block_definition_B)
    ELSE Append(merged_, block_definition_B)

\* MergedStart with the arguments taken the other way round
MergedStart_swapped(def_A, def_B) == def_B

\* Line 73: SamplingBlocksDefinition merged = definition_A
MergedStart(def_A, def_B) == def_A

----------------------------------------------------------------------------
(* definition_to_sampling_block *)

\* KinematicsFromURDF::name_to_index: the index of a joint name, a failure
\* for a name the kinematics does not know
name_to_index(kin, joint_name) ==
    IF joint_name \in DOMAIN kin
    THEN [threw |-> FALSE, index |-> kin[joint_name]]
    ELSE [threw |-> TRUE]

\* BlockVector with every index put in front of block_vector
RECURSIVE BlockVector_reversed(_, _, _, _)
BlockVector_reversed(joint_names, kin, k, block_vector) ==
    IF k > Len(joint_names)
    THEN [threw |-> FALSE, block |-> block_vector]
    ELSE LET r == name_to_index(kin, joint_names[k])
         IN  IF r.threw
             THEN [threw |-> TRUE]
             ELSE BlockVector_reversed(joint_names, kin, k + 1,
                                       <<r.index>> \o block_vector)

\* BlockVector with the failure of name_to_index caught and the name skipped
RECURSIVE BlockVector_skip_unknown(_, _, _, _)
BlockVector_skip_unknown(joint_names, kin, k, block_vector) ==
    IF k > Len(joint_names)
    THEN [threw |-> FALSE, block |-> block_vector]
    ELSE LET r == name_to_index(kin, joint_names[k])
         IN  IF r.threw
             THEN BlockVector_skip_unknown(joint_names, kin, k + 1,
                                           block_vector)
             ELSE BlockVector_skip_unknown(joint_names, kin, k + 1,
                                           Append(block_vector, r.index))

\* Lines 58-62: the inner loop filling block_vector from position k on
RECURSIVE BlockVector(_, _, _, _)
BlockVector(joint_names, kin, k, block_vector) ==
    IF k > Len(joint_names)
    THEN [threw |-> FALSE, block |-> block_vector]
    ELSE LET r == name_to_index(kin, joint_names[k])
         IN  IF r.threw
             THEN [threw |-> TRUE]
             ELSE BlockVector(joint_names, kin, k + 1,
                              Append(block_vector, r.index))

\* Lines 55-66: the outer loop from position i on
RECURSIVE SamplingBlocksFrom(_, _, _, _)
SamplingBlocksFrom(definition, kin, i, blocks) ==
    IF i > Len(definition)
    THEN [threw |-> FALSE, blocks |-> blocks]
    ELSE LET b == BlockVector(BeginSecond(definition[i]), kin, 1, <<>>)
         IN  IF b.threw
             THEN [threw |-> TRUE]
             ELSE SamplingBlocksFrom(definition, kin, i + 1,
                                     Append(blocks, b.block))

definition_to_sampling_block(definition, kin) ==
    SamplingBlocksFrom(definition, kin, 1, <<>>)

----------------------------------------------------------------------------
(* Inputs of the assembly *)

Min(a, b) == IF a <= b THEN a ELSE b

\* Joint lists of the enumerated definitions: A groups list j1, j2, ... and
\* B groups list j4, j3, ..., so that the origin and the order of every
\* entry of a merged group is visible.
JointOrderA == <<"j1", "j2", "j3", "j4">>
JointOrderB == <<"j4", "j3", "j2", "j1">>

JointListsA == {SubSeq(JointOrderA, 1, n) : n \in 0..Min(MaxJoints, 4)}
JointListsB == {SubSeq(JointOrderB, 1, n) : n \in 0..Min(MaxJoints, 4)}

\* One element of a definition holding one named group
Group(name, joint_names) == name :> joint_names

GroupsA == {Group(n, l) : n \in GroupNames, l \in JointListsA}
GroupsB == {Group(n, l) : n \in GroupNames, l \in JointListsB}

SeqsUpTo(S, n) == UNION {[1..k -> S] : k \in 0..n}

EnumeratedInputs ==
    UNION {[1..na -> GroupsA] \X SeqsUpTo(GroupsB, MaxGroups - na) :
               na \in 0..MaxGroups}

\* The scenario of the specification and further hand-picked definitions:
\* longer joint lists in an order that is not sorted, groups repeated in A
\* and in B, and elements that hold a second key.
ScenarioA == <<Group("arm", <<"j1", "j2">>)>>
ScenarioB == <<Group("arm", <<"j3">>), Group("offset", <<"j4">>)>>

ScenarioInputs ==
    { <<ScenarioA, ScenarioB>>,
      << <<Group("arm", <<"j2", "j1">>), Group("arm", <<"j4">>)>>,
         <<Group("offset", <<"j4", "j3">>), Group("arm", <<"j3", "j1">>),
           Group("offset", <<"j2">>)>> >>,
      << <<Group("offset", <<"j3", "j1">>)>>,
         <<Group("arm", <<"j2", "j4", "j2">>), Group("arm", <<"j1">>)>> >>,
      << <<Group("arm", <<"j1">>) @@ Group("offset", <<"j2">>)>>,
         <<Group("offset", <<"j3">>),
           Group("arm", <<"j4", "j3">>) @@ Group("offset", <<"j1">>)>> >> }

Inputs == EnumeratedInputs \cup ScenarioInputs

\* name_to_index of the scenario, and of a robot without the joint j4
ScenarioKinematics == ("j1" :> 0) @@ ("j2" :> 1) @@ ("j3" :> 2) @@ ("j4" :> 3)
SmallKinematics == ("j1" :> 0) @@ ("j2" :> 1) @@ ("j3" :> 2)

Kinematics == {ScenarioKinematics, SmallKinematics}

NoKinematics == [n \in {} |-> 0]

NotHanded == [handed |-> FALSE, blocks |-> <<>>]

----------------------------------------------------------------------------
(* RobotJointTransitionModelBuilder *)

\* Fixed-point stand-ins of the sigmas: 1 is 0.1, 2 is 0.2
SigmaValues == {1, 2}

DimState == 1
DimNoise == 1

\* The conversion of an int to std::size_t in `joint_count != size()`:
\* <<w, v>> stands for the value w * 2^64 + v
IntToSizeT(x) == IF x < 0 THEN <<1, x>> ELSE <<0, x>>

\* joint_sigmas.size()
SizeOf(v) == <<0, Len(v)>>

\* setIdentity() on a rows x cols matrix
Identity(rows, cols) ==
    [r \in 1..rows |-> [c \in 1..cols |-> IF r = c THEN 1 ELSE 0]]

\* B *= s
Scaled(M, s) == [r \in 1..Len(M) |-> [c \in 1..Len(M[r]) |-> M[r][c] * s]]

\* Line 70: the input dimension the model is made with
DimInput == 1

\* fl::LinearStateTransitionModel::create_input_matrix: the input matrix of
\* the model, set to the identity
create_input_matrix(rows, cols) == Identity(rows, cols)

\* ModelOfSigma with the scaled matrix B stored as the input matrix too
ModelOfSigma_input_scaled(sigma) ==
    [kind |-> "model",
     dynamics_matrix |-> Identity(DimState, DimState),
     noise_matrix |-> Scaled(Identity(DimState, DimNoise), sigma),
     input_matrix |-> Scaled(Identity(DimState, DimInput), sigma)]

\* Lines 70-84: the model built with the noise scale sigma. A and B are set
\* to the identity in lines 76-77, C is stored as create_input_matrix made it.
ModelOfSigma(sigma) ==
    [kind |-> "model",
     dynamics_matrix |-> Identity(DimState, DimState),
     noise_matrix |-> Scaled(Identity(DimState, DimNoise), sigma),
     input_matrix |-> create_input_matrix(DimState, DimInput)]

\* JointModel with the sigma of the first joint for every joint
JointModel_first_sigma(param, k) == ModelOfSigma(param.joint_sigmas[1])

\* Line 78: the model for the joint at position k of joint_sigmas
JointModel(param, k) == ModelOfSigma(param.joint_sigmas[k])

\* The sigma a mutated build reads at position k: a value of the vector, or
\* whatever lies outside it
SigmaRead(param, k) ==
    IF k \in 1..Len(param.joint_sigmas) THEN param.joint_sigmas[k] ELSE 0

\* build with the range check made before the sigma count check
build_range_check_first(param, index) ==
    IF index < 0 \/ index >= param.joint_count
    THEN [kind |-> "JointIndexOutOfBoundsException"]
    ELSE IF IntToSizeT(param.joint_count) # SizeOf(param.joint_sigmas)
         THEN [kind |-> "InvalidNumberOfJointSigmasException"]
         ELSE JointModel(param, index + 1)

\* build with `>` in place of `>=` in the range check
build_index_off_by_one(param, index) ==
    IF IntToSizeT(param.joint_count) # SizeOf(param.joint_sigmas)
    THEN [kind |-> "InvalidNumberOfJointSigmasException"]
    ELSE IF index < 0 \/ index > param.joint_count
         THEN [kind |-> "JointIndexOutOfBoundsException"]
         ELSE ModelOfSigma(SigmaRead(param, index + 1))

\* build without the range check
build_no_range_check(param, index) ==
    IF IntToSizeT(param.joint_count) # SizeOf(param.joint_sigmas)
    THEN [kind |-> "InvalidNumberOfJointSigmasException"]
    ELSE ModelOfSigma(SigmaRead(param, index + 1))

\* Lines 58-85: build(joint_index)
build(param, index) ==
    IF IntToSizeT(param.joint_count) # SizeOf(param.joint_sigmas)
    THEN [kind |-> "InvalidNumberOfJointSigmasException"]
    ELSE IF index < 0 \/ index >= param.joint_count
         THEN [kind |-> "JointIndexOutOfBoundsException"]
         ELSE JointModel(param, index + 1)

BuilderParameters ==
    {[joint_sigmas |-> s, joint_count |-> c] :
         s \in SeqsUpTo(SigmaValues, MaxSigmas), c \in -1..MaxJointCount}

JointIndices == -1..(MaxJointCount + 1)

NoParameters == [joint_sigmas |-> <<>>, joint_count |-> 0]

----------------------------------------------------------------------------
(* The assembly in create_visual_tracker *)

BuilderIdle ==
    /\ param_ = NoParameters
    /\ build_log = <<>>

FactoryIdle ==
    /\ definition_A = <<>>
    /\ definition_B = <<>>
    /\ merged = <<>>
    /\ b_pos = 0
    /\ merge_calls = 0
    /\ kinematics = NoKinematics
    /\ sampling_blocks = <<>>
    /\ tracker_blocks = NotHanded
    /\ exception = "none"
    /\ pc = "idle"

----------------------------------------------------------------------------
(* Floating-point arithmetic.  Scalar is double in the source; the model    *)
(* keeps its behaviour (rounding of every operation to a fixed number of   *)
(* significant digits, NaN, infinities, division by zero) at a precision   *)
(* of Precision decimal digits instead of 53 binary ones.  A finite value  *)
(* is m * 10^e with m = 0 or 10^(Precision-1) <= |m| < 10^Precision.       *)

\* significant decimal digits of a Scalar
Precision == 4

\* 10^n for n in 0..9
Pow10(n) ==
    <<1, 10, 100, 1000, 10000, 100000, 1000000, 10000000, 100000000,
      1000000000>>[n + 1]

Abs(i) == IF i < 0 THEN -i ELSE i

Sign(i) == IF i < 0 THEN -1 ELSE 1

NaN == [k |-> "nan", m |-> 0, e |-> 0]

Inf(sign) == [k |-> "inf", m |-> sign, e |-> 0]

Zero == [k |-> "fin", m |-> 0, e |-> 0]

\* Number of decimal digits of the positive integer a (a < 2^31)
Digits(a) ==
    IF a < 10000
    THEN (IF a < 10 THEN 1 ELSE IF a < 100 THEN 2 ELSE IF a < 1000 THEN 3
          ELSE 4)
    ELSE IF a < 10000000
    THEN (IF a < 100000 THEN 5 ELSE IF a < 1000000 THEN 6 ELSE 7)
    ELSE IF a < 100000000 THEN 8 ELSE IF a < 1000000000 THEN 9 ELSE 10

\* The Scalar nearest to m * 10^e (ties to the even last digit)
Round(m, e) ==
    IF m = 0 THEN Zero
    ELSE LET a == Abs(m)
             n == Digits(a)
         IN  IF n <= Precision
             THEN [k |-> "fin", m |-> m * Pow10(Precision - n),
                   e |-> e - (Precision - n)]
             ELSE LET shift == n - Precision
                      down == a \div Pow10(shift)
                      rest == a % Pow10(shift)
                      half == 5 * Pow10(shift - 1)
                      q == IF rest > half \/ (rest = half /\ down % 2 = 1)
                           THEN down + 1 ELSE down
                  IN  IF q = Pow10(Precision)
                      THEN [k |-> "fin", m |-> Sign(m) * Pow10(Precision - 1),
                            e |-> e + shift + 1]
                      ELSE [k |-> "fin", m |-> Sign(m) * q, e |-> e + shift]

\* The Scalar of an integer
Num(i) == Round(i, 0)

IsFinite(a) == a.k = "fin"

FNeg(a) == [a EXCEPT !.m = -a.m]

\* a + b, rounded; an operand below a hundredth of the other's last digit
\* does not change the other
FAdd(a, b) ==
    IF a.k = "nan" \/ b.k = "nan" THEN NaN
    ELSE IF a.k = "inf" /\ b.k = "inf" THEN (IF a.m = b.m THEN a ELSE NaN)
    ELSE IF a.k = "inf" THEN a
    ELSE IF b.k = "inf" THEN b
    ELSE IF a.m = 0 THEN b
    ELSE IF b.m = 0 THEN a
    ELSE IF a.e - b.e > Precision + 1 THEN a
    ELSE IF b.e - a.e > Precision + 1 THEN b
    ELSE IF a.e >= b.e THEN Round(a.m * Pow10(a.e - b.e) + b.m, b.e)
    ELSE Round(b.m * Pow10(b.e - a.e) + a.m, a.e)

FSub(a, b) == FAdd(a, FNeg(b))

FMul(a, b) ==
    IF a.k = "nan" \/ b.k = "nan" THEN NaN
    ELSE IF a.k = "inf" \/ b.k = "inf"
         THEN (IF a.m = 0 \/ b.m = 0 THEN NaN ELSE Inf(Sign(a.m) * Sign(b.m)))
    ELSE Round(a.m * b.m, a.e + b.e)

\* a / b, rounded: 0/0 is NaN, x/0 is an infinity
FDiv(a, b) ==
    IF a.k = "nan" \/ b.k = "nan" THEN NaN
    ELSE IF a.k = "inf" THEN (IF b.k = "inf" THEN NaN
                              ELSE Inf(Sign(a.m) * Sign(b.m)))
    ELSE IF b.k = "inf" THEN Zero
    ELSE IF b.m = 0 THEN (IF a.m = 0 THEN NaN ELSE Inf(Sign(a.m)))
    ELSE LET n == Abs(a.m) * Pow10(Precision + 1)
             inexact == IF n % Abs(b.m) = 0 THEN 0 ELSE 1
         IN  Round(Sign(a.m) * Sign(b.m) * (10 * (n \div Abs(b.m)) + inexact),
                   a.e - b.e - (Precision + 2))

RECURSIVE SqrtBetween(_, _, _)
\* The largest r in lo..hi with r * r <= n
SqrtBetween(n, lo, hi) ==
    IF lo >= hi THEN lo
    ELSE LET mid == (lo + hi + 1) \div 2
         IN  IF mid * mid <= n THEN SqrtBetween(n, mid, hi)
             ELSE SqrtBetween(n, lo, mid - 1)

\* Ten times the square root of n (n < 10^9), cut to an integer whose last
\* digit tells on which side of r and of r + 1/2 the root lies
TenfoldSqrt(n) ==
    LET r == SqrtBetween(n, 0, 31622)
    IN  10 * r + (IF n = r * r THEN 0 ELSE IF n - r * r > r THEN 6 ELSE 1)

\* std::sqrt
FSqrt(a) ==
    IF a.k = "nan" THEN NaN
    ELSE IF a.k = "inf" THEN (IF a.m > 0 THEN a ELSE NaN)
    ELSE IF a.m < 0 THEN NaN
    ELSE IF a.m = 0 THEN Zero
    ELSE IF a.e % 2 = 0
         THEN Round(TenfoldSqrt(a.m * Pow10(Precision)),
                    (a.e - Precision) \div 2 - 1)
         ELSE Round(TenfoldSqrt(a.m * Pow10(Precision + 1)),
                    (a.e - Precision - 1) \div 2 - 1)

\* a and b differ by at most `ulps` units in the last digit of the larger
Near(a, b, ulps) ==
    /\ IsFinite(a)
    /\ IsFinite(b)
    /\ LET d == FSub(a, b)
           big == IF Abs(a.m) = 0 THEN b ELSE IF Abs(b.m) = 0 THEN a
                  ELSE IF a.e >= b.e THEN a ELSE b
       IN  \/ d.m = 0
           \/ d.e < big.e - (Precision - 1)
           \/ /\ d.e - big.e <= 0
              /\ Abs(d.m) * Pow10(d.e - big.e + Precision - 1)
                     <= ulps * Pow10(Precision - 1)

----------------------------------------------------------------------------
(* DampedWienerProcess (part_002), for a State of dimension 1 *)

One == Num(1)

\* e^-1 .. e^-8, rounded to Precision digits
ExpOfMinus ==
    << [k |-> "fin", m |-> 3679, e |-> -4], [k |-> "fin", m |-> 1353, e |-> -4],
       [k |-> "fin", m |-> 4979, e |-> -5], [k |-> "fin", m |-> 1832, e |-> -5],
       [k |-> "fin", m |-> 6738, e |-> -6], [k |-> "fin", m |-> 2479, e |-> -6],
       [k |-> "fin", m |-> 9119, e |-> -7], [k |-> "fin", m |-> 3355, e |-> -7] >>

\* exp of lines 144-145 and 156: the Scalar nearest to e^x, for x = 0, for x
\* so small that e^x is nearer to 1 than to any other Scalar, and for
\* x = -1 .. -8
Exp(x) ==
    IF x.k = "nan" THEN NaN
    ELSE IF x.k = "inf" THEN (IF x.m > 0 THEN x ELSE Zero)
    ELSE IF x.m = 0 \/ x.e < -2 * Precision THEN One
    ELSE ExpOfMinus[CHOOSE n \in DOMAIN ExpOfMinus : Num(n) = FNeg(x)]

\* state_expectation.norm() of line 148, for one dimension
Norm(v) == [v EXCEPT !.m = Abs(v.m)]

\* Lines 140-152
Mean(damping, delta_time, state, input) ==
    LET state_expectation ==
            FAdd(FMul(FDiv(FSub(One, Exp(FMul(FNeg(damping), delta_time))),
                           damping),
                      input),
                 FMul(Exp(FMul(FNeg(damping), delta_time)), state))
    IN  IF ~IsFinite(Norm(state_expectation))
        THEN FAdd(state, FMul(delta_time, input))
        ELSE state_expectation

\* Lines 154-161
Covariance(damping, noise_covariance, delta_time) ==
    LET factor ==
            FDiv(FSub(One, Exp(FMul(FMul(Num(-2), damping), delta_time))),
                 FMul(Num(2), damping))
    IN  FMul(IF ~IsFinite(factor) THEN delta_time ELSE factor,
             noise_covariance)

\* GaussianType(dimension): the standard normal distribution
StandardGaussian == [mean |-> Zero, covariance |-> One]

\* GaussianType::MapGaussian: the affine map of a standard normal sample
\* under the mean and the square root of the covariance
AffineMap(gaussian, sample) ==
    FAdd(gaussian.mean, FMul(FSqrt(gaussian.covariance), sample))

\* The mean is set while the distribution has not been conditioned before
SetMean_first_only(gaussian, mean) ==
    IF gaussian = StandardGaussian THEN [gaussian EXCEPT !.mean = mean]
    ELSE gaussian

\* Line 123: gaussian_.Mean(...)
SetMean(gaussian, mean) == [gaussian EXCEPT !.mean = mean]

\* Line 124: gaussian_.Covariance(...)
SetCovariance(gaussian, covariance) ==
    [gaussian EXCEPT !.covariance = covariance]

\* Damping coefficients: zero, one far below the last digit of 1, and two
\* ordinary ones
Dampings == {Zero, [k |-> "fin", m |-> 1000, e |-> -12], Num(1), Num(2)}

NoiseCovariances == {Num(1), Num(4)}

DeltaTimes == {Zero, Num(1)}

States == {Zero, Num(1)}

ProcessInputs == {Zero, Num(2)}

Samples == {Num(-1), Num(1)}

ConditionArguments ==
    [delta_time : DeltaTimes, state : States, input : ProcessInputs]

Callers == {1, 2}

NoCondition ==
    [made |-> FALSE, earlier |-> FALSE,
     delta_time |-> Zero, state |-> Zero, input |-> Zero]

NoArguments == [delta_time |-> Zero, state |-> Zero, input |-> Zero]

\* No caller uses the process
CallersIdle ==
    /\ caller_pc = [c \in Callers |-> "idle"]
    /\ caller_args = [c \in Callers |-> NoArguments]
    /\ caller_sample = [c \in Callers |-> Zero]
    /\ caller_result = [c \in Callers |-> Zero]

SequentialIdle ==
    /\ last_condition = NoCondition
    /\ maps_since = <<>>

ProcessIdle ==
    /\ damping_ = Zero
    /\ noise_covariance_ = Zero
    /\ gaussian_ = StandardGaussian
    /\ SequentialIdle
    /\ CallersIdle

----------------------------------------------------------------------------
(* ContinuousOcclusionProcessModel (part_001).  Probabilities, sigmas,     *)
(* samples and scores are counted in hundredths; delta_time in seconds.    *)

\* The hundredths of 1.0
Hundred == 100

\* A score of infinite magnitude: the logit of 1.0, and of 0.0 negated
ScoreInfinity == 100000

\* 100 ln(p / (100 - p)) for p = 1 .. 99
LogitTable ==
    << -460, -389, -348, -318, -294, -275, -259, -244, -231, -220, -209,
       -199, -190, -182, -173, -166, -159, -152, -145, -139, -132, -127,
       -121, -115, -110, -105, -99, -94, -90, -85, -80, -75, -71,
       -66, -62, -58, -53, -49, -45, -41, -36, -32, -28, -24,
       -20, -16, -12, -8, -4, 0, 4, 8, 12, 16, 20,
       24, 28, 32, 36, 41, 45, 49, 53, 58, 62, 66,
       71, 75, 80, 85, 90, 94, 99, 105, 110, 115, 121,
       127, 132, 139, 145, 152, 159, 166, 173, 182, 190, 199,
       209, 220, 231, 244, 259, 275, 294, 318, 348, 389, 460 >>

\* hf::Logit: ln(p / (1 - p))
Logit(p) ==
    IF p <= 0 THEN -ScoreInfinity
    ELSE IF p >= Hundred THEN ScoreInfinity
    ELSE LogitTable[p]

\* hf::Sigmoid: 1 / (1 + e^-x), to the nearest hundredth
Sigmoid(x) ==
    IF x <= -530 THEN 0
    ELSE IF x >= 530 THEN Hundred
    ELSE 1 + Cardinality({q \in 2..Len(LogitTable) :
                              LogitTable[q - 1] + LogitTable[q] <= 2 * x})

\* a * b for hundredths a and b, to the nearest hundredth
HundredthsMul(a, b) == (a * b + 50) \div Hundred

\* std::sqrt of a number of seconds, in hundredths
SqrtOfSeconds(delta_time) ==
    LET n == delta_time * Hundred * Hundred
        r == SqrtBetween(n, 0, 31622)
    IN  IF n - r * r > r THEN r + 1 ELSE r

\* OcclusionProcessModel(p_occluded_visible, p_occluded_occluded)
OcclusionProcessModel(p_occluded_visible, p_occluded_occluded) ==
    [p_occluded_visible |-> p_occluded_visible,
     p_occluded_occluded |-> p_occluded_occluded,
     probability |-> 0]

RECURSIVE Transitioned(_, _, _)
\* The probability of occlusion `seconds` later: one step of the two-state
\* chain per second
Transitioned(model, seconds, probability) ==
    IF seconds <= 0 THEN probability
    ELSE Transitioned(model, seconds - 1,
                      (probability * model.p_occluded_occluded
                         + (Hundred - probability) * model.p_occluded_visible
                         + 50) \div Hundred)

\* OcclusionProcessModel::Condition
OcclusionMeanCondition(model, delta_time, probability) ==
    [model EXCEPT !.probability = Transitioned(model, delta_time, probability)]

\* OcclusionProcessModel::MapStandardGaussian
OcclusionMeanMap(model) == model.probability

\* TruncatedGaussian(mean, sigma, min, max)
TruncatedGaussian(mean, sigma, min, max) ==
    [mean |-> mean, sigma |-> sigma, min |-> min, max |-> max]

\* TruncatedGaussian::MapStandardGaussian: the draw for a standard normal
\* sample; it rises with the sample, stays within [min, max] and is the
\* mean, clipped, for sigma = 0
TruncatedMap(truncated, sample) ==
    LET x == truncated.mean + HundredthsMul(truncated.sigma, sample)
    IN  IF x < truncated.min THEN truncated.min
        ELSE IF x > truncated.max THEN truncated.max
        ELSE x

\* The distribution is truncated to [0, 1] but its deviation grows with
\* delta_time instead of its square root
ConditionedProbability_linear(mean, sigma, delta_time) ==
    TruncatedGaussian(mean, sigma * delta_time, 0, Hundred)

\* Lines 253-254
ConditionedProbability(mean, sigma, delta_time) ==
    TruncatedGaussian(mean, HundredthsMul(sigma, SqrtOfSeconds(delta_time)),
                      0, Hundred)

\* Line 259
MappedScore(truncated, sample) == Logit(TruncatedMap(truncated, sample))

OcclusionRates == {<<10, 90>>, <<30, 70>>}

Sigmas == {0, 30}

OcclusionDeltaTimes == {0, 1, 2}

\* Prior scores: the logits of 0.1, 0.5 and 0.88, and 1.0
Scores == {-220, 0, 100, 199}

OcclusionSamples == {-200, 100}

OcclusionArguments == [delta_time : OcclusionDeltaTimes, occlusion : Scores]

NoOcclusionArguments == [delta_time |-> 0, occlusion |-> 0]

\* TruncatedGaussian(): the member before the first Condition
DefaultTruncatedGaussian == TruncatedGaussian(0, Hundred, 0, Hundred)

OcclusionCallersIdle ==
    /\ occ_pc = [c \in Callers |-> "idle"]
    /\ occ_args = [c \in Callers |-> NoOcclusionArguments]
    /\ occ_mean = [c \in Callers |-> 0]
    /\ occ_sample = [c \in Callers |-> 0]
    /\ occ_result = [c \in Callers |-> 0]

OcclusionIdle ==
    /\ mean_ = OcclusionProcessModel(0, 0)
    /\ occlusion_probability_ = DefaultTruncatedGaussian
    /\ sigma_ = 0
    /\ OcclusionCallersIdle

Threads == 1..NumThreads

\* Value of mutex_ while no thread owns it
Unlocked == 0

TrackerIdle ==
    /\ mutex_ = Unlocked
    /\ tpc = [t \in Threads |-> "idle"]
    /\ call = [t \in Threads |-> "none"]
    /\ result = [t \in Threads |-> "none"]
    /\ started = 0

\* Lines 215-219: both definitions have been read
Init ==
    /\ \E in \in Inputs :
          /\ definition_A = in[1]
          /\ definition_B = in[2]
    /\ merged = <<>>
    /\ b_pos = 0
    /\ merge_calls = 0
    /\ kinematics = NoKinematics
    /\ sampling_blocks = <<>>
    /\ tracker_blocks = NotHanded
    /\ exception = "none"
    /\ pc = "read"
    /\ BuilderIdle
    /\ TrackerIdle
    /\ ProcessIdle
    /\ OcclusionIdle

\* Line 73
MergeBegin ==
    /\ pc = "read"
    /\ merged' = MergedStart(definition_A, definition_B)
    /\ b_pos' = 1
    /\ merge_calls' = merge_calls + 1
    /\ pc' = "merging"
    /\ UNCHANGED <<definition_A, definition_B, kinematics, sampling_blocks,
                   tracker_blocks, exception>>
    /\ UNCHANGED beyond_factory_vars

\* Lines 75-95
MergeBlock ==
    /\ pc = "merging"
    /\ b_pos <= Len(definition_B)
    /\ merged' = MergeBlockInto(merged, definition_B[b_pos])
    /\ b_pos' = b_pos + 1
    /\ UNCHANGED <<definition_A, definition_B, merge_calls, kinematics,
                   sampling_blocks, tracker_blocks, exception, pc>>
    /\ UNCHANGED beyond_factory_vars

\* Line 97
MergeReturn ==
    /\ pc = "merging"
    /\ b_pos > Len(definition_B)
    /\ pc' = "merged"
    /\ UNCHANGED <<definition_A, definition_B, merged, b_pos, merge_calls,
                   kinematics, sampling_blocks, tracker_blocks, exception>>
    /\ UNCHANGED beyond_factory_vars

\* A caller merges the result with an empty definition: merge(result, {})
MergeWithEmpty ==
    /\ pc = "merged"
    /\ merge_calls < MaxMergeCalls
    /\ definition_A' = merged
    /\ definition_B' = <<>>
    /\ merged' = <<>>
    /\ b_pos' = 0
    /\ pc' = "read"
    /\ UNCHANGED <<merge_calls, kinematics, sampling_blocks, tracker_blocks,
                   exception>>
    /\ UNCHANGED beyond_factory_vars

\* Lines 223-224: name_to_index succeeds for every joint name
Resolve ==
    /\ pc = "merged"
    /\ \E kin \in Kinematics :
          LET r == definition_to_sampling_block(merged, kin)
          IN  /\ ~r.threw
              /\ kinematics' = kin
              /\ sampling_blocks' = r.blocks
    /\ pc' = "resolved"
    /\ UNCHANGED <<definition_A, definition_B, merged, b_pos, merge_calls,
                   tracker_blocks, exception>>
    /\ UNCHANGED beyond_factory_vars

\* Lines 223-224: name_to_index fails, the failure leaves
\* create_visual_tracker and nothing is assigned
ResolveThrows ==
    /\ pc = "merged"
    /\ \E kin \in Kinematics :
          /\ definition_to_sampling_block(merged, kin).threw
          /\ kinematics' = kin
    /\ exception' = "name_to_index"
    /\ pc' = "threw"
    /\ UNCHANGED <<definition_A, definition_B, merged, b_pos, merge_calls,
                   sampling_blocks, tracker_blocks>>
    /\ UNCHANGED beyond_factory_vars

\* Lines 236-244: the tracker builder is constructed with tracker_parameters
BuildTracker ==
    /\ pc = "resolved"
    /\ tracker_blocks' = [handed |-> TRUE, blocks |-> sampling_blocks]
    /\ pc' = "built"
    /\ UNCHANGED <<definition_A, definition_B, merged, b_pos, merge_calls,
                   kinematics, sampling_blocks, exception>>
    /\ UNCHANGED beyond_factory_vars

Next ==
    \/ MergeBegin
    \/ MergeBlock
    \/ MergeReturn
    \/ MergeWithEmpty
    \/ Resolve
    \/ ResolveThrows
    \/ BuildTracker

Spec == Init /\ [][Next]_vars

----------------------------------------------------------------------------
(* Calls of build on one builder *)

\* Line 57: the builder is constructed with a copy of the parameters
InitBuilder ==
    /\ TrackerIdle
    /\ ProcessIdle
    /\ OcclusionIdle
    /\ param_ \in BuilderParameters
    /\ build_log = <<>>
    /\ FactoryIdle

\* Lines 58-85: one call of build; build is const and leaves param_ alone
Build ==
    /\ Len(build_log) < MaxBuilds
    /\ \E i \in JointIndices :
          build_log' = Append(build_log,
                              [joint_index |-> i, result |-> build(param_, i)])
    /\ UNCHANGED param_
    /\ UNCHANGED beyond_builder_vars

NextBuilder == Build

SpecBuilder == InitBuilder /\ [][NextBuilder]_vars

----------------------------------------------------------------------------
(* RobotTracker::initialize and RobotTracker::track (robot_tracker.cpp) *)

\* std::lock_guard's constructor returns without checking the mutex
lock_returns_always(mutex) == TRUE

\* Lines 36 and 48: std::lock_guard's constructor returns once no thread owns
\* the mutex, and blocks until then
lock_returns(mutex) == mutex = Unlocked

\* The guard unlocks when the function returns, not when it is unwound
guard_destroyed_return_only(owner, exit) ==
    IF exit = "returned" THEN Unlocked ELSE owner

\* Lines 39 and 51: the mutex after the lock_guard `lock` is destroyed, on a
\* return and on the unwinding of an exception alike
guard_destroyed(owner, exit) == Unlocked

InitTracker ==
    /\ TrackerIdle
    /\ ProcessIdle
    /\ OcclusionIdle
    /\ FactoryIdle
    /\ BuilderIdle

\* Line 33: a thread calls initialize
CallInitialize(t) ==
    /\ tpc[t] = "idle"
    /\ started < MaxCalls
    /\ tpc' = [tpc EXCEPT ![t] = "lock"]
    /\ call' = [call EXCEPT ![t] = "initialize"]
    /\ started' = started + 1
    /\ UNCHANGED <<mutex_, result>>
    /\ UNCHANGED beyond_tracker_vars

\* Line 46: a thread calls track
CallTrack(t) ==
    /\ tpc[t] = "idle"
    /\ started < MaxCalls
    /\ tpc' = [tpc EXCEPT ![t] = "lock"]
    /\ call' = [call EXCEPT ![t] = "track"]
    /\ started' = started + 1
    /\ UNCHANGED <<mutex_, result>>
    /\ UNCHANGED beyond_tracker_vars

\* Lines 36 and 48: the lock_guard is constructed, on_initialize or on_track
\* is entered
Lock(t) ==
    /\ tpc[t] = "lock"
    /\ lock_returns(mutex_)
    /\ mutex_' = t
    /\ tpc' = [tpc EXCEPT ![t] = "on_entered"]
    /\ UNCHANGED <<call, result, started>>
    /\ UNCHANGED beyond_tracker_vars

\* Lines 38 and 49: on_initialize or on_track runs
OnRuns(t) ==
    /\ tpc[t] = "on_entered"
    /\ tpc' = [tpc EXCEPT ![t] = "on_running"]
    /\ UNCHANGED <<mutex_, call, result, started>>
    /\ UNCHANGED beyond_tracker_vars

\* Lines 38 and 49: on_initialize or on_track returns
OnReturns(t) ==
    /\ tpc[t] = "on_running"
    /\ tpc' = [tpc EXCEPT ![t] = "returning"]
    /\ UNCHANGED <<mutex_, call, result, started>>
    /\ UNCHANGED beyond_tracker_vars

\* Lines 38 and 49: on_initialize or on_track throws
OnThrows(t) ==
    /\ tpc[t] = "on_running"
    /\ tpc' = [tpc EXCEPT ![t] = "unwinding"]
    /\ UNCHANGED <<mutex_, call, result, started>>
    /\ UNCHANGED beyond_tracker_vars

\* Lines 39 and 50-51: the function returns, its lock_guard is destroyed
Return(t) ==
    /\ tpc[t] = "returning"
    /\ mutex_' = guard_destroyed(mutex_, "returned")
    /\ tpc' = [tpc EXCEPT ![t] = "idle"]
    /\ result' = [result EXCEPT ![t] = "returned"]
    /\ UNCHANGED <<call, started>>
    /\ UNCHANGED beyond_tracker_vars

\* Lines 38 and 49: the exception leaves the function, its lock_guard is
\* destroyed by the unwinding
Unwind(t) ==
    /\ tpc[t] = "unwinding"
    /\ mutex_' = guard_destroyed(mutex_, "threw")
    /\ tpc' = [tpc EXCEPT ![t] = "idle"]
    /\ result' = [result EXCEPT ![t] = "threw"]
    /\ UNCHANGED <<call, started>>
    /\ UNCHANGED beyond_tracker_vars

NextTracker ==
    \E t \in Threads :
        \/ CallInitialize(t)
        \/ CallTrack(t)
        \/ Lock(t)
        \/ OnRuns(t)
        \/ OnReturns(t)
        \/ OnThrows(t)
        \/ Return(t)
        \/ Unwind(t)

SpecTracker == InitTracker /\ [][NextTracker]_vars

\* The scheduling the completion of calls is stated under: a thread that can
\* take a step does so, on_initialize and on_track terminate, and a thread
\* that waits for the mutex gets it if it is free again and again.
FairTracker ==
    \A t \in Threads :
        /\ SF_vars(Lock(t))
        /\ WF_vars(OnRuns(t))
        /\ WF_vars(OnReturns(t) \/ OnThrows(t))
        /\ WF_vars(Return(t))
        /\ WF_vars(Unwind(t))

SpecTrackerFair == InitTracker /\ [][NextTracker]_vars /\ FairTracker

----------------------------------------------------------------------------
(* DampedWienerProcess used by one caller: every call runs to its end      *)
(* before the next one begins                                              *)

\* Lines 104-110: the constructor initialises gaussian_ and leaves damping_
\* and noise_covariance_ uninitialised, so they hold any value
InitProcess ==
    /\ damping_ \in Dampings
    /\ noise_covariance_ \in NoiseCovariances
    /\ gaussian_ = StandardGaussian
    /\ SequentialIdle
    /\ CallersIdle
    /\ FactoryIdle
    /\ BuilderIdle
    /\ TrackerIdle
    /\ OcclusionIdle

\* Lines 127-132; the parameters are set before the process is used
Parameters ==
    /\ last_condition = NoCondition
    /\ maps_since = <<>>
    /\ \E damping \in Dampings, noise_covariance \in NoiseCovariances :
          /\ damping_' = damping
          /\ noise_covariance_' = noise_covariance
    /\ UNCHANGED <<gaussian_, last_condition, maps_since>>
    /\ UNCHANGED <<caller_pc, caller_args, caller_sample, caller_result>>
    /\ UNCHANGED beyond_process_vars

\* Lines 119-125
Condition ==
    /\ \E a \in ConditionArguments :
          /\ gaussian_' =
                SetCovariance(
                    SetMean(gaussian_,
                            Mean(damping_, a.delta_time, a.state, a.input)),
                    Covariance(damping_, noise_covariance_, a.delta_time))
          /\ last_condition' =
                [made |-> TRUE,
                 earlier |-> last_condition.made
                             /\ <<last_condition.delta_time,
                                  last_condition.state, last_condition.input>>
                                # <<a.delta_time, a.state, a.input>>,
                 delta_time |-> a.delta_time,
                 state |-> a.state, input |-> a.input]
    /\ maps_since' = <<>>
    /\ UNCHANGED <<damping_, noise_covariance_>>
    /\ UNCHANGED <<caller_pc, caller_args, caller_sample, caller_result>>
    /\ UNCHANGED beyond_process_vars

\* Lines 114-117
MapGaussian ==
    /\ Len(maps_since) < MaxMaps
    /\ \E sample \in Samples :
          maps_since' = Append(maps_since,
                               [sample |-> sample,
                                value |-> AffineMap(gaussian_, sample)])
    /\ UNCHANGED <<damping_, noise_covariance_, gaussian_, last_condition>>
    /\ UNCHANGED <<caller_pc, caller_args, caller_sample, caller_result>>
    /\ UNCHANGED beyond_process_vars

NextProcess ==
    \/ Parameters
    \/ Condition
    \/ MapGaussian

SpecProcess == InitProcess /\ [][NextProcess]_vars

----------------------------------------------------------------------------
(* One DampedWienerProcess shared by two callers, each calling Condition   *)
(* and then MapGaussian, once.  The callers' statements interleave; the    *)
(* source has no synchronisation.                                          *)

\* Line 119: a caller enters Condition
CallCondition(c) ==
    /\ caller_pc[c] = "idle"
    /\ \E a \in ConditionArguments :
          caller_args' = [caller_args EXCEPT ![c] = a]
    /\ caller_pc' = [caller_pc EXCEPT ![c] = "in_condition"]
    /\ UNCHANGED <<damping_, noise_covariance_, gaussian_, last_condition,
                   maps_since, caller_sample, caller_result>>
    /\ UNCHANGED beyond_process_vars

\* Line 123
ConditionMean(c) ==
    /\ caller_pc[c] = "in_condition"
    /\ gaussian_' = SetMean(gaussian_,
                            Mean(damping_, caller_args[c].delta_time,
                                 caller_args[c].state, caller_args[c].input))
    /\ caller_pc' = [caller_pc EXCEPT ![c] = "mean_set"]
    /\ UNCHANGED <<damping_, noise_covariance_, last_condition, maps_since,
                   caller_args, caller_sample, caller_result>>
    /\ UNCHANGED beyond_process_vars

\* Lines 124-125
ConditionCovariance(c) ==
    /\ caller_pc[c] = "mean_set"
    /\ gaussian_' = SetCovariance(gaussian_,
                                  Covariance(damping_, noise_covariance_,
                                             caller_args[c].delta_time))
    /\ caller_pc' = [caller_pc EXCEPT ![c] = "conditioned"]
    /\ UNCHANGED <<damping_, noise_covariance_, last_condition, maps_since,
                   caller_args, caller_sample, caller_result>>
    /\ UNCHANGED beyond_process_vars

\* Lines 114-117
CallMapGaussian(c) ==
    /\ caller_pc[c] = "conditioned"
    /\ \E sample \in Samples :
          /\ caller_sample' = [caller_sample EXCEPT ![c] = sample]
          /\ caller_result' =
                [caller_result EXCEPT ![c] = AffineMap(gaussian_, sample)]
    /\ caller_pc' = [caller_pc EXCEPT ![c] = "mapped"]
    /\ UNCHANGED <<damping_, noise_covariance_, gaussian_, last_condition,
                   maps_since, caller_args>>
    /\ UNCHANGED beyond_process_vars

NextProcessShared ==
    \E c \in Callers :
        \/ CallCondition(c)
        \/ ConditionMean(c)
        \/ ConditionCovariance(c)
        \/ CallMapGaussian(c)

SpecProcessShared == InitProcess /\ [][NextProcessShared]_vars

----------------------------------------------------------------------------
(* ContinuousOcclusionProcessModel: one instance, used by one caller       *)
(* (SpecOcclusion) or shared by two (SpecOcclusionShared), each calling    *)
(* Condition and then MapStandardGaussian.  The callers' statements        *)
(* interleave; the source has no synchronisation.                          *)

\* Lines 237-241
InitOcclusion ==
    /\ \E rates \in OcclusionRates : mean_ = OcclusionProcessModel(rates[1], rates[2])
    /\ occlusion_probability_ = DefaultTruncatedGaussian
    /\ sigma_ \in Sigmas
    /\ OcclusionCallersIdle
    /\ FactoryIdle
    /\ BuilderIdle
    /\ TrackerIdle
    /\ ProcessIdle

\* Lines 245-250: a caller enters Condition, mean_ is conditioned on the
\* sigmoid of the score
OcclusionConditionMean(c, again) ==
    /\ occ_pc[c] \in {"idle"} \cup (IF again THEN {"mapped"} ELSE {})
    /\ \E a \in OcclusionArguments :
          /\ occ_args' = [occ_args EXCEPT ![c] = a]
          /\ mean_' = OcclusionMeanCondition(mean_, a.delta_time,
                                             Sigmoid(a.occlusion))
    /\ occ_pc' = [occ_pc EXCEPT ![c] = "mean_conditioned"]
    /\ occ_mean' = [occ_mean EXCEPT ![c] = 0]
    /\ occ_sample' = [occ_sample EXCEPT ![c] = 0]
    /\ occ_result' = [occ_result EXCEPT ![c] = 0]
    /\ UNCHANGED <<occlusion_probability_, sigma_>>
    /\ UNCHANGED beyond_occlusion_vars

\* Line 251
OcclusionReadMean(c) ==
    /\ occ_pc[c] = "mean_conditioned"
    /\ occ_mean' = [occ_mean EXCEPT ![c] = OcclusionMeanMap(mean_)]
    /\ occ_pc' = [occ_pc EXCEPT ![c] = "mean_read"]
    /\ UNCHANGED <<mean_, occlusion_probability_, sigma_, occ_args,
                   occ_sample, occ_result>>
    /\ UNCHANGED beyond_occlusion_vars

\* Lines 253-255
OcclusionConditionProbability(c) ==
    /\ occ_pc[c] = "mean_read"
    /\ occlusion_probability_' =
          ConditionedProbability(occ_mean[c], sigma_, occ_args[c].delta_time)
    /\ occ_pc' = [occ_pc EXCEPT ![c] = "conditioned"]
    /\ UNCHANGED <<mean_, sigma_, occ_args, occ_mean, occ_sample, occ_result>>
    /\ UNCHANGED beyond_occlusion_vars

\* Lines 257-260
MapStandardGaussian(c) ==
    /\ occ_pc[c] = "conditioned"
    /\ \E sample \in OcclusionSamples :
          /\ occ_sample' = [occ_sample EXCEPT ![c] = sample]
          /\ occ_result' =
                [occ_result EXCEPT
                    ![c] = MappedScore(occlusion_probability_, sample)]
    /\ occ_pc' = [occ_pc EXCEPT ![c] = "mapped"]
    /\ UNCHANGED <<mean_, occlusion_probability_, sigma_, occ_args, occ_mean>>
    /\ UNCHANGED beyond_occlusion_vars

NextOcclusion ==
    \/ OcclusionConditionMean(1, TRUE)
    \/ OcclusionReadMean(1)
    \/ OcclusionConditionProbability(1)
    \/ MapStandardGaussian(1)

SpecOcclusion == InitOcclusion /\ [][NextOcclusion]_vars

NextOcclusionShared ==
    \E c \in Callers :
        \/ OcclusionConditionMean(c, FALSE)
        \/ OcclusionReadMean(c)
        \/ OcclusionConditionProbability(c)
        \/ MapStandardGaussian(c)

SpecOcclusionShared == InitOcclusion /\ [][NextOcclusionShared]_vars

----------------------------------------------------------------------------
(* Properties of the sampling block assembly *)

\* The group names of a definition: the first key of each element
NamesOf(definition) ==
    {BeginFirst(definition[i]) : i \in 1..Len(definition)}

\* Every key that occurs in a definition
KeysOf(definition) ==
    UNION {DOMAIN definition[i] : i \in 1..Len(definition)}

DistinctNames(definition) ==
    \A i, j \in 1..Len(definition) :
        BeginFirst(definition[i]) = BeginFirst(definition[j]) => i = j

IsPrefix(s, t) == Len(s) <= Len(t) /\ SubSeq(t, 1, Len(s)) = s

ScenarioMerged ==
    <<Group("arm", <<"j1", "j2", "j3">>), Group("offset", <<"j4">>)>>

ScenarioBlocks == << <<0, 1, 2>>, <<3>> >>

\* The first group of `definition` named `name`
FirstNamed(definition, name) ==
    CHOOSE i \in 1..Len(definition) :
        /\ BeginFirst(definition[i]) = name
        /\ \A j \in 1..(i - 1) : BeginFirst(definition[j]) # name

\* What one step of a merge does to the definition being built
C1_MergeStep ==
        /\ (pc = "merging" /\ b_pos' = b_pos + 1) =>
             LET g == definition_B[b_pos]
             IN  IF BeginFirst(g) \in NamesOf(merged)
                 THEN LET f == FirstNamed(merged, BeginFirst(g))
                      IN  /\ Len(merged') = Len(merged)
                          /\ BeginFirst(merged'[f]) = BeginFirst(g)
                          /\ BeginSecond(merged'[f]) =
                                 BeginSecond(merged[f]) \o BeginSecond(g)
                 ELSE /\ Len(merged') = Len(merged) + 1
                      /\ SubSeq(merged', 1, Len(merged)) = merged
                      /\ merged'[Len(merged')] = g
        /\ (pc' = "merged" /\ definition_A = ScenarioA
                /\ definition_B = ScenarioB) => merged' = ScenarioMerged

\* C1: every iteration of the merge takes the next group of B; when the
\* definition being built holds a group of that name, the joint names of the
\* B group follow the joint names that group had, in the order of B, and no
\* group is added; otherwise the B group becomes the new last group as it
\* is. The scenario A = [arm:[j1,j2]], B = [arm:[j3], offset:[j4]] ends in
\* [arm:[j1,j2,j3], offset:[j4]].
C1_MergeAppendsInOrder == [][C1_MergeStep]_vars

C1_Witness ==
    /\ pc = "merged"
    /\ definition_A = ScenarioA
    /\ definition_B = ScenarioB
    /\ merged = ScenarioMerged

\* C2: first match wins: of several groups of A with one name only the
\* first is extended by B, the later ones are in the result as they were in A.
C2_FirstMatchWins ==
    pc = "merged" =>
        \A i, j \in 1..Len(definition_A) :
            (i < j /\ BeginFirst(definition_A[i]) = BeginFirst(definition_A[j]))
                => merged[j] = definition_A[j]

\* What one step of a merge does to the arguments and the result
C3_MergeStep ==
        pc \in {"read", "merging"} =>
            /\ definition_A' = definition_A
            /\ definition_B' = definition_B
            /\ pc' = "merged" =>
                  /\ Len(merged') >= Len(definition_A)
                  /\ \A i \in 1..Len(definition_A) :
                        /\ BeginFirst(merged'[i]) = BeginFirst(definition_A[i])
                        /\ IsPrefix(BeginSecond(definition_A[i]),
                                    BeginSecond(merged'[i]))
                        /\ BeginFirst(definition_A[i]) \notin NamesOf(definition_B)
                               => merged'[i] = definition_A[i]

\* C3: a merge leaves its arguments alone, and its result starts with the
\* groups of A: the same names in the same order, a group whose name is not
\* in B identical, every group of A a prefix of the group of the result.
C3_MergePreservesA == [][C3_MergeStep]_vars

C3_Witness ==
    /\ pc = "merged"
    /\ Len(definition_A) = 2
    /\ Len(definition_B) > 0
    /\ merged[1] # definition_A[1]
    /\ BeginSecond(merged[2]) # <<>>
    /\ merged[2] = definition_A[2]

\* C4 as stated: the number of blocks of resolve(merge(A, B), K) is the
\* number of distinct group names in A or B, for all A and B.
C4_BlockCountAllInputs ==
    pc = "resolved" =>
        Len(sampling_blocks) =
            Cardinality(KeysOf(definition_A) \cup KeysOf(definition_B))

\* C4 amended: when the group names of A are pairwise distinct, the number
\* of blocks of resolve(merge(A, B), K) is the number of distinct group names
\* in A or B, the name of a group being the first key of its element.
C4_BlockCountDistinctA ==
    (pc = "resolved" /\ DistinctNames(definition_A)) =>
        Len(sampling_blocks) =
            Cardinality(NamesOf(definition_A) \cup NamesOf(definition_B))

C4_Witness ==
    /\ pc = "resolved"
    /\ DistinctNames(definition_A)
    /\ Len(definition_A) = 1
    /\ Len(definition_B) = 2
    /\ NamesOf(definition_B) = {BeginFirst(definition_A[1])}
    /\ Len(sampling_blocks) = 1

\* C5: merging a result with the empty definition gives the result again,
\* however often it is done: every call after the first merges the result
\* of the call before with {} and returns its first argument.
C5_MergeWithEmptyIsIdentity ==
    (pc = "merged" /\ merge_calls > 1) =>
        /\ definition_B = <<>>
        /\ merged = definition_A

C5_Witness ==
    /\ pc = "merged"
    /\ merge_calls = 3
    /\ Len(merged) = 2
    /\ Len(BeginSecond(merged[1])) > 1
    /\ merged = definition_A

\* The joint names of all groups of a definition are known to a kinematics
AllKnown(definition, kin) ==
    \A i \in 1..Len(definition) :
        \A k \in 1..Len(BeginSecond(definition[i])) :
            BeginSecond(definition[i])[k] \in DOMAIN kin

\* C6: the i-th block is the i-th group and its k-th entry the index of the
\* k-th joint name of the group: nothing reordered, dropped or merged. The
\* scenario definition resolves to [[0,1,2],[3]].
C6_ResolveMirrorsDefinition ==
    pc \in {"resolved", "built"} =>
        /\ Len(sampling_blocks) = Len(merged)
        /\ \A i \in 1..Len(merged) :
              /\ Len(sampling_blocks[i]) = Len(BeginSecond(merged[i]))
              /\ \A k \in 1..Len(BeginSecond(merged[i])) :
                    /\ BeginSecond(merged[i])[k] \in DOMAIN kinematics
                    /\ sampling_blocks[i][k] =
                           kinematics[BeginSecond(merged[i])[k]]
        /\ (merged = ScenarioMerged /\ kinematics = ScenarioKinematics)
               => sampling_blocks = ScenarioBlocks

C6_Witness ==
    /\ pc = "resolved"
    /\ merged = ScenarioMerged
    /\ kinematics = ScenarioKinematics
    /\ sampling_blocks = ScenarioBlocks

\* C7: with a joint name the kinematics does not know the resolve ends in
\* the failure of name_to_index: no block list is returned or assigned, and
\* the tracker builder is handed a block list only after a resolve in which
\* every name was known.
C7_UnknownJointFails ==
    /\ pc \in {"resolved", "built"} => AllKnown(merged, kinematics)
    /\ pc = "threw" =>
          /\ ~AllKnown(merged, kinematics)
          /\ exception = "name_to_index"
          /\ sampling_blocks = <<>>
    /\ tracker_blocks.handed =>
          /\ pc = "built"
          /\ tracker_blocks.blocks = sampling_blocks
    /\ pc \in {"threw", "read", "merging", "merged", "resolved"}
          => tracker_blocks = NotHanded

C7_Witness ==
    /\ pc = "threw"
    /\ exception = "name_to_index"
    /\ Len(merged) = 2
    /\ BeginSecond(merged[1]) = <<"j1">>
    /\ Len(BeginSecond(merged[2])) = 2
    /\ BeginSecond(merged[2])[1] \in DOMAIN kinematics
    /\ BeginSecond(merged[2])[2] \notin DOMAIN kinematics
    /\ tracker_blocks = NotHanded

----------------------------------------------------------------------------
(* Properties of RobotJointTransitionModelBuilder::build *)

SigmaCountError == "InvalidNumberOfJointSigmasException"
RangeError == "JointIndexOutOfBoundsException"

\* C8: with len(joint_sigmas) # joint_count every build call ends in the
\* sigma count error and returns no model, whatever the index, also an
\* index outside the range.
C8_SigmaCountErrorFirst ==
    Len(param_.joint_sigmas) # param_.joint_count =>
        \A n \in 1..Len(build_log) :
            build_log[n].result = [kind |-> SigmaCountError]

C8_Witness ==
    /\ Len(param_.joint_sigmas) = 2
    /\ param_.joint_count = 1
    /\ Len(build_log) = 3
    /\ build_log[1].joint_index = 0
    /\ build_log[2].joint_index = -1
    /\ build_log[3].joint_index = 1
    /\ \A n \in 1..3 : build_log[n].result.kind = SigmaCountError

\* C9: with len(joint_sigmas) = joint_count a build call ends in the range
\* error exactly for i < 0 and i >= joint_count, and returns a model for
\* every 0 <= i < joint_count.
C9_RangeErrorExactly ==
    Len(param_.joint_sigmas) = param_.joint_count =>
        \A n \in 1..Len(build_log) :
            LET i == build_log[n].joint_index
                outside == i < 0 \/ i >= param_.joint_count
            IN  /\ (build_log[n].result.kind = RangeError) <=> outside
                /\ ~outside => build_log[n].result.kind = "model"

C9_Witness ==
    /\ Len(param_.joint_sigmas) = 2
    /\ param_.joint_count = 2
    /\ Len(build_log) = 3
    /\ build_log[1].joint_index = -1
    /\ build_log[1].result.kind = RangeError
    /\ build_log[2].joint_index = 2
    /\ build_log[2].result.kind = RangeError
    /\ build_log[3].joint_index = 1
    /\ build_log[3].result.kind = "model"

\* The outcome the validation rules give for parameters and an index
ValidationOutcome(param, i) ==
    IF Len(param.joint_sigmas) # param.joint_count
    THEN SigmaCountError
    ELSE IF i < 0 \/ i >= param.joint_count THEN RangeError ELSE "model"

\* What one build call does to the builder and the log of calls
C10_BuildStep ==
        Len(build_log') = Len(build_log) + 1 =>
            /\ param_' = param_
            /\ SubSeq(build_log', 1, Len(build_log)) = build_log
            /\ build_log'[Len(build_log')].result.kind =
                   ValidationOutcome(param_,
                                     build_log'[Len(build_log')].joint_index)

\* C10: every build call validates: its outcome is the one the parameters
\* of the construction and its own index give, whatever the calls before it
\* were and however they ended, and no call changes the builder.
C10_EveryCallValidates == [][C10_BuildStep]_vars

C10_Witness ==
    /\ Len(build_log) = 3
    /\ build_log[1].result.kind = RangeError
    /\ build_log[2].result.kind = "model"
    /\ build_log[3].result.kind = RangeError
    /\ build_log[3].joint_index = param_.joint_count

\* The rows x cols matrix with d on the diagonal
Diagonal(rows, cols, d) ==
    [r \in 1..rows |-> [c \in 1..cols |-> IF r = c THEN d ELSE 0]]

\* C11: a build call that succeeds returns a model of one dimension whose
\* dynamics matrix is the identity and whose noise matrix is the identity
\* times the sigma of the joint built, joint_sigmas[i]; with joint_count = 2
\* and joint_sigmas = [0.1, 0.2], build(1) has the noise matrix 0.2 I.
C11_ModelOfTheJoint ==
    \A n \in 1..Len(build_log) :
        build_log[n].result.kind = "model" =>
            LET i == build_log[n].joint_index
                m == build_log[n].result
            IN  /\ i + 1 \in 1..Len(param_.joint_sigmas)
                /\ m.dynamics_matrix = Diagonal(1, 1, 1)
                /\ m.noise_matrix = Diagonal(1, 1, param_.joint_sigmas[i + 1])
                /\ (param_ = [joint_sigmas |-> <<1, 2>>, joint_count |-> 2]
                        /\ i = 1) => m.noise_matrix = <<<<2>>>>

C11_Witness ==
    /\ param_ = [joint_sigmas |-> <<1, 2>>, joint_count |-> 2]
    /\ Len(build_log) = 2
    /\ build_log[1].joint_index = 1
    /\ build_log[1].result.kind = "model"
    /\ build_log[1].result.noise_matrix = <<<<2>>>>
    /\ build_log[2].joint_index = 0
    /\ build_log[2].result.noise_matrix = <<<<1>>>>

\* C12: a build call that succeeds returns a model whose input matrix is the
\* identity, whatever the sigma of the joint is.
C12_InputMatrixIdentity ==
    \A n \in 1..Len(build_log) :
        build_log[n].result.kind = "model" =>
            build_log[n].result.input_matrix = Diagonal(1, 1, 1)

C12_Witness ==
    /\ Len(build_log) = 1
    /\ build_log[1].result.kind = "model"
    /\ build_log[1].result.noise_matrix = <<<<2>>>>
    /\ build_log[1].result.input_matrix = <<<<1>>>>

----------------------------------------------------------------------------
(* Properties of RobotTracker *)

\* The threads inside on_initialize or on_track
InFilter == {t \in Threads : tpc[t] \in {"on_entered", "on_running"}}

\* C19: at no time are two executions of on_initialize or on_track in
\* progress at once, and each runs while its caller owns the mutex.
C19_FilterSerialised ==
    /\ Cardinality(InFilter) <= 1
    /\ \A t \in InFilter : mutex_ = t

C19_Witness ==
    /\ tpc[1] = "on_running"
    /\ call[1] = "track"
    /\ tpc[2] = "lock"
    /\ call[2] = "initialize"
    /\ result[2] = "returned"

\* C20: the mutex is released on every exit from initialize and track, a
\* throw of on_initialize or on_track included, so under fair scheduling
\* every call that was started completes.
C20_EveryCallCompletes ==
    /\ [](mutex_ # Unlocked => tpc[mutex_] # "idle")
    /\ \A t \in Threads : (tpc[t] # "idle") ~> (tpc[t] = "idle")

C20_Witness ==
    /\ result[1] = "threw"
    /\ tpc[1] = "idle"
    /\ tpc[2] = "on_entered"
    /\ mutex_ = 2

----------------------------------------------------------------------------
(* Properties of DampedWienerProcess *)

\* The distribution a Condition call with the arguments a computes
ConditionedOn(a) ==
    [mean |-> Mean(damping_, a.delta_time, a.state, a.input),
     covariance |-> Covariance(damping_, noise_covariance_, a.delta_time)]

\* C13: with two callers sharing one process, each doing Condition and then
\* MapGaussian, a caller's MapGaussian result is the one its own Condition
\* arguments determine, under every interleaving.
C13_CallersIndependent ==
    \A c \in Callers :
        caller_pc[c] = "mapped" =>
            caller_result[c] =
                AffineMap(ConditionedOn(caller_args[c]), caller_sample[c])

\* A MapGaussian call leaves the process as it was
C15_MapStep ==
    Len(maps_since') > Len(maps_since) =>
        UNCHANGED <<gaussian_, damping_, noise_covariance_>>

\* Every MapGaussian call since the last Condition call returned the affine
\* map under what that Condition call computed
C15_MapsUseLastCondition ==
    last_condition.made =>
        \A n \in 1..Len(maps_since) :
            /\ maps_since[n].value =
                  AffineMap(ConditionedOn(last_condition), maps_since[n].sample)
            /\ \A j \in 1..Len(maps_since) :
                  maps_since[j].sample = maps_since[n].sample
                      => maps_since[j].value = maps_since[n].value

\* C15: in a sequential run MapGaussian returns the affine map of its sample
\* under the mean and covariance of the most recent Condition call, not of
\* an earlier one; MapGaussian changes nothing, so repeated calls with the
\* same sample between two Condition calls return the same value.
C15_MapUsesMostRecentCondition ==
    /\ []C15_MapsUseLastCondition
    /\ [][C15_MapStep]_vars

C15_Witness ==
    /\ last_condition.made
    /\ last_condition.earlier
    /\ Len(maps_since) = 3
    /\ maps_since[1].sample = maps_since[3].sample
    /\ maps_since[1].sample # maps_since[2].sample
    /\ maps_since[1].value = maps_since[3].value
    /\ maps_since[1].value # maps_since[2].value

\* The dampings so small that damping * delta_time is below the last digit
\* of 1: the exact mean and covariance round to the random-walk limit
Vanishing(damping) == damping.m = 0 \/ damping.e < -2 * Precision

\* C16: the output of Condition is finite, and for a damping of zero or
\* tending to zero it is the random-walk limit mean = state + dt * input,
\* covariance = dt * noise covariance.
C16_ZeroDampingLimit ==
    (last_condition.made /\ maps_since = <<>>) =>
        /\ IsFinite(gaussian_.mean)
        /\ IsFinite(gaussian_.covariance)
        /\ Vanishing(damping_) =>
              /\ gaussian_.mean =
                    FAdd(last_condition.state,
                         FMul(last_condition.delta_time, last_condition.input))
              /\ gaussian_.covariance =
                    FMul(last_condition.delta_time, noise_covariance_)

\* 1 - e^(-x) for x >= 0, to the last digit: x itself where x is below the
\* last digit of 1
OneMinusExpOfMinus(x) ==
    IF x.m = 0 THEN Zero
    ELSE IF x.e < -2 * Precision THEN x
    ELSE FSub(One, Exp(FNeg(x)))

\* ((1 - e^(-damping dt)) / damping) input + e^(-damping dt) state
DampedMean(damping, delta_time, state, input) ==
    FAdd(FMul(FDiv(OneMinusExpOfMinus(FMul(damping, delta_time)), damping),
              input),
         FMul(Exp(FNeg(FMul(damping, delta_time))), state))

\* ((1 - e^(-2 damping dt)) / (2 damping)) noise covariance
DampedCovariance(damping, noise_covariance, delta_time) ==
    FMul(FDiv(OneMinusExpOfMinus(FMul(FMul(Num(2), damping), delta_time)),
              FMul(Num(2), damping)),
         noise_covariance)

\* C17: for damping > 0 with finite results, Condition yields the damped
\* mean and covariance, to within 2 units in the last digit; damping = 1, dt = 1, state = 0, input = 2,
\* noise covariance = 1 gives the mean 1.264 and the covariance 0.432.
C17_DampedFormula ==
    (/\ last_condition.made
     /\ maps_since = <<>>
     /\ damping_.m > 0
     /\ IsFinite(gaussian_.mean)
     /\ IsFinite(gaussian_.covariance)) =>
        /\ Near(gaussian_.mean,
                DampedMean(damping_, last_condition.delta_time,
                           last_condition.state, last_condition.input),
                2)
        /\ Near(gaussian_.covariance,
                DampedCovariance(damping_, noise_covariance_,
                                 last_condition.delta_time),
                2)
        /\ (/\ damping_ = Num(1)
            /\ noise_covariance_ = Num(1)
            /\ last_condition.delta_time = Num(1)
            /\ last_condition.state = Zero
            /\ last_condition.input = Num(2)) =>
               /\ Near(gaussian_.mean,
                       [k |-> "fin", m |-> 1264, e |-> -3], 2)
               /\ Near(gaussian_.covariance,
                       [k |-> "fin", m |-> 4323, e |-> -4], 2)

----------------------------------------------------------------------------
(* Properties of ContinuousOcclusionProcessModel *)

\* The probability a caller's Condition arguments determine as the mean
OwnMean(c) ==
    Transitioned(mean_, occ_args[c].delta_time, Sigmoid(occ_args[c].occlusion))

\* The draw a caller's arguments determine: from a Gaussian about OwnMean
\* with deviation sigma * sqrt(dt), truncated to [0, 1]
OwnDraw(c) ==
    TruncatedMap(
        TruncatedGaussian(
            OwnMean(c),
            HundredthsMul(sigma_, SqrtOfSeconds(occ_args[c].delta_time)),
            0, Hundred),
        occ_sample[c])

\* What a caller that has mapped a sample is to get
OwnResult(c) ==
    occ_pc[c] = "mapped" =>
        /\ OwnDraw(c) \in 0..Hundred
        /\ occ_result[c] = Logit(OwnDraw(c))
        /\ Sigmoid(occ_result[c]) = OwnDraw(c)

\* C14: with two callers sharing one occlusion model, each doing Condition
\* and then MapStandardGaussian, a caller's result is the one its own
\* Condition arguments and the construction parameters determine, under
\* every interleaving.
C14_OcclusionCallersIndependent == \A c \in Callers : OwnResult(c)

\* C18: for every dt >= 0, prior score and sample, the value returned by
\* MapStandardGaussian after Condition(dt, score) is the logit of a draw
\* from a Gaussian truncated to [0, 1] with deviation sigma * sqrt(dt), so
\* the sigmoid of the result is a probability within [0, 1].
C18_LogitOfTruncatedDraw == OwnResult(1)

C18_Witness ==
    /\ occ_pc[1] = "mapped"
    /\ sigma_ = 30
    /\ occ_args[1].delta_time = 2
    /\ occ_sample[1] = 100
    /\ OwnDraw(1) \in 1..(Hundred - 1)
    /\ OwnDraw(1) # OwnMean(1)
    /\ occ_result[1] = Logit(OwnDraw(1))

----------------------------------------------------------------------------
(* Further properties of the sampling block assembly *)

\* The key of an element that sorts first
SmallestKey(element) ==
    KeyOrder[CHOOSE r \in 1..Len(KeyOrder) :
                /\ KeyOrder[r] \in DOMAIN element
                /\ \A o \in 1..Len(KeyOrder) :
                      KeyOrder[o] \in DOMAIN element => r <= o]

RECURSIVE EntryCount(_)
\* The joint-name entries of a definition: those its groups list under
\* their names
EntryCount(definition) ==
    IF definition = <<>> THEN 0
    ELSE Len(definition[1][SmallestKey(definition[1])])
             + EntryCount(Tail(definition))

\* C21: if the group names of A are pairwise distinct, the group names of
\* merge(A, B) are pairwise distinct for every B, and merge(A, B) holds as
\* many joint-name entries as A and B together; while the merge runs the
\* same holds for the part of B merged so far.
C21_MergeKeepsNamesDistinct ==
    (pc \in {"merging", "merged"} /\ DistinctNames(definition_A)) =>
        /\ \A i, j \in 1..Len(merged) :
              SmallestKey(merged[i]) = SmallestKey(merged[j]) => i = j
        /\ EntryCount(merged) =
              EntryCount(definition_A)
                  + EntryCount(SubSeq(definition_B, 1, b_pos - 1))

C21_Witness ==
    /\ pc = "merged"
    /\ Len(definition_A) = 1
    /\ Len(definition_B) = 2
    /\ SmallestKey(definition_A[1]) = "arm"
    /\ SmallestKey(definition_B[1]) = "offset"
    /\ SmallestKey(definition_B[2]) = "offset"
    /\ Len(definition_A[1]["arm"]) = 1
    /\ Len(definition_B[1]["offset"]) = 2
    /\ Len(definition_B[2]["offset"]) = 1
    /\ Len(merged) = 2
    /\ merged[2]["offset"] =
          definition_B[1]["offset"] \o definition_B[2]["offset"]

\* A definition with every element cut down to its first key
FirstKeysOnly(definition) ==
    [i \in 1..Len(definition) |->
        Group(SmallestKey(definition[i]),
              definition[i][SmallestKey(definition[i])])]

RECURSIVE MergeFrom(_, _, _)
\* merge_sampling_block_definitions from position k of B on
MergeFrom(merged_, def_B, k) ==
    IF k > Len(def_B) THEN merged_
    ELSE MergeFrom(MergeBlockInto(merged_, def_B[k]), def_B, k + 1)

\* C22: resolve returns one block per element of the definition, the i-th
\* block has as many indices as the joint-name list under the first key of
\* the i-th element, and merge and resolve look only at that first key:
\* with every further key removed from the definitions, the merged groups
\* and the blocks are the same.
C22_OnlyFirstKeyCounts ==
    /\ pc = "merged" =>
          FirstKeysOnly(merged) =
              MergeFrom(FirstKeysOnly(definition_A),
                        FirstKeysOnly(definition_B), 1)
    /\ pc = "resolved" =>
          /\ Len(sampling_blocks) = Len(merged)
          /\ \A i \in 1..Len(merged) :
                Len(sampling_blocks[i]) = Len(merged[i][SmallestKey(merged[i])])
          /\ LET r == definition_to_sampling_block(FirstKeysOnly(merged),
                                                   kinematics)
             IN  ~r.threw /\ r.blocks = sampling_blocks

C22_Witness ==
    /\ pc = "resolved"
    /\ Len(merged) = 2
    /\ DOMAIN merged[1] = {"arm", "offset"}
    /\ merged[1]["offset"] = <<"j2">>
    /\ sampling_blocks = << <<0, 3, 2>>, <<2>> >>

====
